---- MODULE Spec2Model ----
(***************************************************************************)
(* Model of instrumentpy's TS3 fixture-controller adapter                   *)
(* (src/src/instrumentpy/platform/next/ts3.py) on top of the               *)
(* CommonDeviceInterface transport contract.                                *)
(*                                                                          *)
(* Text (Python str) is a sequence of one-character strings, bytes are a    *)
(* sequence of integers 0..255.  encode()/decode() convert between them.    *)
(***************************************************************************)
EXTENDS Integers, Sequences, FiniteSets, TLC

VARIABLES
    pc,       \* position of the caller: "idle" | "returned" (a method of the
              \* adapter ended); "start" | "done" for a single function
    op,       \* name of the method or function last called ("" before)
    dev,      \* what the transport does during the call (see Transport)
    trace,    \* events of the last call in order: send / recv / sleep
    outcome,  \* how the last call ended: [exc, ret]
    calls,    \* every transport call made so far, in order: [ev, ok]
    nOps,     \* number of TS3 methods called so far
    args,     \* argument tuple of _build_cmd (sequence of texts)
    frame,    \* bytes _build_cmd returned
    expect,   \* expected_command of _get_command_response
    _device,  \* the attribute _device of the adapter: which transport it uses
    prev,     \* the call before the last one: [op, input, outcome, trace]
    _serial,  \* the serial line of a SerialDevice: [is_open]
    _socket   \* the socket of a TCPIPDevice: the bytes that have arrived

vars == <<pc, op, dev, trace, outcome, calls, nOps, args, frame, expect,
          _device, prev, _serial, _socket>>

(***************************************************************************)
(* Bounds of the model.                                                     *)
(***************************************************************************)
\* number of TS3 methods one caller issues in a row
MaxOps == 2
\* largest number of ';'-separated fields in a response of the device
MaxFields == 18
\* longest single argument (firmware line, UART/I2C message) of a frame
MaxArgLen == 992

(***************************************************************************)
(* Characters and bytes.                                                    *)
(***************************************************************************)
\* the digits of a number; the first ten are the decimal ones
HexDigits == <<"0", "1", "2", "3", "4", "5", "6", "7", "8", "9",
               "A", "B", "C", "D", "E", "F">>

\* The characters text is made of in this model, with their ASCII codes.
CodePoints ==
    { <<"\r", 13>>, <<"$", 36>>, <<"-", 45>>, <<".", 46>>, <<";", 59>>,
      <<"0", 48>>, <<"1", 49>>, <<"2", 50>>, <<"3", 51>>, <<"4", 52>>,
      <<"5", 53>>, <<"6", 54>>, <<"7", 55>>, <<"8", 56>>, <<"9", 57>>,
      <<"A", 65>>, <<"B", 66>>, <<"C", 67>>, <<"D", 68>>, <<"E", 69>>,
      <<"F", 70>>, <<"S", 83>>, <<"x", 120>> }

Ord == [c \in { p[1] : p \in CodePoints } |-> (CHOOSE p \in CodePoints : p[1] = c)[2]]

Chr == [b \in { p[2] : p \in CodePoints } |->
            (CHOOSE p \in CodePoints : p[2] = b)[1]]

\* a byte that can occur in no UTF-8 text
InvalidByte == 255

\* str.encode(): the ASCII range encodes to one byte per character
encode(s) == [i \in 1..Len(s) |-> Ord[s[i]]]

\* bytes.decode() succeeds exactly when the bytes are valid UTF-8; every
\* byte of this model below 128 is one ASCII character, InvalidByte never is
decode(bs) == [i \in 1..Len(bs) |-> Chr[bs[i]]]

(***************************************************************************)
(* str(int), "{:03d}", "{:04X}", ";".join, str.split                        *)
(***************************************************************************)
RECURSIVE NatToStr(_)
NatToStr(n) ==
    IF n < 10 THEN <<HexDigits[n + 1]>>
    ELSE Append(NatToStr(n \div 10), HexDigits[(n % 10) + 1])

\* str(int(n))
IntToStr(n) == IF n < 0 THEN <<"-">> \o NatToStr(0 - n) ELSE NatToStr(n)

\* n zeros
Zeros(n) == [i \in 1..n |-> "0"]

\* "{:03d}".format(n) for n >= 0: at least three digits, more when needed
Format03d(n) ==
    LET d == NatToStr(n)
    IN  IF Len(d) >= 3 THEN d ELSE Zeros(3 - Len(d)) \o d

RECURSIVE NatToHex(_)
NatToHex(n) ==
    IF n < 16 THEN <<HexDigits[n + 1]>>
    ELSE Append(NatToHex(n \div 16), HexDigits[(n % 16) + 1])

\* f"{n:04X}" for n >= 0: at least four upper-case hex digits
Format04X(n) ==
    LET d == NatToHex(n)
    IN  IF Len(d) >= 4 THEN d ELSE Zeros(4 - Len(d)) \o d

\* sep.join(parts)
RECURSIVE join(_, _)
join(sep, parts) ==
    IF Len(parts) = 0 THEN <<>>
    ELSE IF Len(parts) = 1 THEN parts[1]
    ELSE parts[1] \o sep \o join(sep, Tail(parts))

\* s.split(c): the fields between the occurrences of c; one more field than
\* occurrences, so "" splits to one empty field
RECURSIVE splitFrom(_, _, _, _)
splitFrom(s, c, i, cur) ==
    IF i > Len(s) THEN <<cur>>
    ELSE IF s[i] = c THEN <<cur>> \o splitFrom(s, c, i + 1, <<>>)
    ELSE splitFrom(s, c, i + 1, Append(cur, s[i]))

\* a split that drops the empty field after a trailing separator
DropLastEmpty(f) ==
    IF Len(f) > 1 /\ f[Len(f)] = <<>> THEN SubSeq(f, 1, Len(f) - 1) ELSE f
split_drop_trailing(s, c) == DropLastEmpty(splitFrom(s, c, 1, <<>>))

split(s, c) == splitFrom(s, c, 1, <<>>)

(***************************************************************************)
(* CRC of the crc package: CrcCalculator(Configuration(width, poly,       *)
(* init_value, final_xor_value, reverse_input, reverse_output), False).     *)
(***************************************************************************)
width == 16
poly == 32773            \* 0x8005
init_value == 65535      \* 0xFFFF
final_xor_value == 0
reverse_input == TRUE
reverse_output == TRUE

RECURSIVE Pow2(_)
Pow2(n) == IF n = 0 THEN 1 ELSE 2 * Pow2(n - 1)

RECURSIVE Xor(_, _)
Xor(a, b) ==
    IF a = 0 THEN b
    ELSE IF b = 0 THEN a
    ELSE ((a + b) % 2) + 2 * Xor(a \div 2, b \div 2)

\* the low `bits` bits of v in reverse order
RECURSIVE Reflect(_, _)
Reflect(v, bits) ==
    IF bits = 0 THEN 0
    ELSE (v % 2) * Pow2(bits - 1) + Reflect(v \div 2, bits - 1)

RECURSIVE CrcShifts(_, _)
CrcShifts(reg, n) ==
    IF n = 0 THEN reg
    ELSE LET shifted == (2 * reg) % Pow2(width)
             next == IF reg >= Pow2(width - 1) THEN Xor(shifted, poly)
                     ELSE shifted
         IN  IF next >= 0 THEN CrcShifts(next, n - 1) ELSE next

\* Tables over single bytes, computed once from the definitions above.
\* XorByte[a][b] = a xor b; ReflectByte[b] = b with its bits reversed;
\* ShiftByte[h] = the register h * 2^(width - 8) after eight shifts;
\* StepByte[h][b] = the same once the input byte b is xor-ed into h.
XorByte == [a \in 0..255 |-> [b \in 0..255 |-> Xor(a, b)]]
ReflectByte == [b \in 0..255 |-> Reflect(b, 8)]
ShiftByte == [h \in 0..255 |-> CrcShifts(h * Pow2(width - 8), 8)]
StepByte ==
    [h \in 0..255 |-> [b \in 0..255 |->
        ShiftByte[XorByte[h][IF reverse_input THEN ReflectByte[b] ELSE b]]]]

\* the register after one more input byte: the byte is xor-ed into the top
\* eight bits and the register shifted eight times.  Shifting is linear over
\* xor, so the shifted register is the shifted top byte xor the low byte
\* moved up.
CrcUpdateByte(reg, byte) ==
    LET t == StepByte[reg \div 256][byte]
    IN  XorByte[t \div 256][reg % 256] * 256 + (t % 256)

\* the register after the bytes data[lo..hi], folded left to right
RECURSIVE CrcFold(_, _, _, _)
CrcFold(reg, data, lo, hi) ==
    IF lo > hi THEN reg
    ELSE IF lo = hi THEN CrcUpdateByte(reg, data[lo])
    ELSE LET mid == (lo + hi) \div 2
             left == CrcFold(reg, data, lo, mid)
         IN  IF left >= 0 THEN CrcFold(left, data, mid + 1, hi) ELSE left

calculate_checksum(data) ==
    LET reg == CrcFold(init_value, data, 1, Len(data))
        out == IF reverse_output THEN Reflect(reg, width) ELSE reg
    IN  Xor(out, final_xor_value)

(***************************************************************************)
(* TS3._calc_crc and TS3._build_cmd                                         *)
(***************************************************************************)
\* result[2:] + result[:2]
SwapHalves(result) ==
    SubSeq(result, 3, Len(result)) \o SubSeq(result, 1, 2)

_calc_crc(data) == SwapHalves(Format04X(calculate_checksum(data)))

\* "${:03d};{:s};{:s}".format(n, joined, checksum)
command_format(n, joined, checksum) ==
    <<"$">> \o Format03d(n) \o <<";">> \o joined \o <<";">> \o checksum

\* the length field taken from the joined arguments alone
BuildWithJoinedLength(joined, command) ==
    encode(command_format(Len(joined), joined, _calc_crc(encode(command))))
        \o encode(<<"\r">>)
_build_cmd_joined_length(a) ==
    BuildWithJoinedLength(join(<<";">>, a),
                          command_format(0, join(<<";">>, a), Zeros(4)))

\* a frame that carries the number of calls made so far as a last argument
_build_cmd_numbered(a) ==
    LET joined == join(<<";">>, a \o <<NatToStr(nOps)>>)
        command == command_format(0, joined, Zeros(4))
    IN  encode(command_format(Len(command), joined, _calc_crc(encode(command))))
            \o encode(<<"\r">>)

\* a provisional command whose length placeholder is four characters wide
_build_cmd_wide_placeholder(a) ==
    LET joined == join(<<";">>, a)
        command == <<"$">> \o Zeros(4) \o <<";">> \o joined \o <<";">> \o Zeros(4)
    IN  encode(command_format(Len(command), joined, _calc_crc(encode(command))))
            \o encode(<<"\r">>)

\* the checksum taken over the command with its real length
_build_cmd_checksum_real_length(a) ==
    LET joined == join(<<";">>, a)
        command == command_format(0, joined, Zeros(4))
        sized == command_format(Len(command), joined, Zeros(4))
    IN  encode(command_format(Len(command), joined, _calc_crc(encode(sized))))
            \o encode(<<"\r">>)

_build_cmd(a) ==
    LET joined == join(<<";">>, a)
        command == command_format(0, joined, Zeros(4))
        checksum == _calc_crc(encode(command))
        cmd == command_format(Len(command), joined, checksum)
    IN  encode(cmd) \o encode(<<"\r">>)

(***************************************************************************)
(* Python values, exceptions and the completion of a statement sequence.    *)
(* A text computed at run time is PyStr (its characters); a string literal  *)
(* of the source is PyLit.  No literal of ts3.py is a text over these characters that  *)
(* the device can send, so the two never denote the same Python string.     *)
(***************************************************************************)
PyNone == [t |-> "None"]
PyStr(cs) == [t |-> "str", chars |-> cs]
PyLit(s) == [t |-> "str", lit |-> s]
PyInt(n) == [t |-> "int", int |-> n]
PyBool(b) == [t |-> "bool", bool |-> b]
PyTuple(items) == [t |-> "tuple", items |-> items]
\* the float mantissa / 10^scale
PyFloat(mantissa, scale) == [t |-> "float", mantissa |-> mantissa, scale |-> scale]
\* the list of texts str.split returns
PyList(fields) == [t |-> "list", fields |-> fields]

NoExc == [cls |-> "none"]
\* whatever the transport raises (serial.SerialException, OSError)
TransportError == [cls |-> "TransportError"]
IndexError == [cls |-> "IndexError"]
ValueError == [cls |-> "ValueError"]
UnicodeDecodeError == [cls |-> "UnicodeDecodeError"]
TS3Error(arg) == [cls |-> "TS3Error", arg |-> arg]

\* events a call leaves behind, in order
SendEvent(data, ok) ==
    [ev |-> "send", ok |-> ok, data |-> data, ms |-> 0, length |-> 0]
\* length is the limit receive_output was called with
RecvEvent(data, ok, length) ==
    [ev |-> "recv", ok |-> ok, data |-> data, ms |-> 0, length |-> length]
SleepEvent(ms) ==
    [ev |-> "sleep", ok |-> TRUE, data |-> <<>>, ms |-> ms, length |-> 0]

\* a statement sequence ends by falling through (exc = NoExc) with a value,
\* or by raising
Returns(value, events) == [exc |-> NoExc, ret |-> value, trace |-> events]
Raises(e, events) == [exc |-> e, ret |-> PyNone, trace |-> events]

\* first; second -- second only runs when first did not raise
Then(first, second) ==
    IF first.exc # NoExc THEN first
    ELSE [second EXCEPT !.trace = first.trace \o second.trace]

\* a[i] of Python for i >= 0 (sequences of the model start at 1)
HasItem(a, i) == i + 1 <= Len(a)
Item(a, i) == a[i + 1]

(***************************************************************************)
(* CommonDeviceInterface as the adapter sees it.  What the transport does   *)
(* during one call is the environment's choice:                             *)
(*   sendRaises   send_command raises                                       *)
(*   sendShort    send_command returns 0 instead of the byte count          *)
(*   recvRaises   receive_output raises                                     *)
(*   fields       the ';'-separated byte fields receive_output returns      *)
(***************************************************************************)
Transport(sendRaises, sendShort, recvRaises, fields) ==
    [sendRaises |-> sendRaises, sendShort |-> sendShort,
     recvRaises |-> recvRaises, fields |-> fields]

\* the bytes of a response made of the given fields
ResponseBytes(fields) == join(<<Ord[";"]>>, fields)

device_send_command(env, data) ==
    IF env.sendRaises THEN Raises(TransportError, <<SendEvent(data, FALSE)>>)
    ELSE Returns(PyInt(IF env.sendShort THEN 0 ELSE Len(data)),
                 <<SendEvent(data, TRUE)>>)

device_receive_output(env, length) ==
    IF env.recvRaises THEN Raises(TransportError, <<RecvEvent(<<>>, FALSE, length)>>)
    ELSE LET data == ResponseBytes(env.fields)
         IN  Returns(data, <<RecvEvent(data, TRUE, length)>>)

(***************************************************************************)
(* TS3._send_command, TS3._handle_nack_response, TS3._get_command_response  *)
(***************************************************************************)
ReceiveLength == 512

\* a send that returned 0 taken for a failure
Discard_checks_result(r) ==
    IF r.exc # NoExc THEN r
    ELSE IF r.ret = PyInt(0) THEN Raises(TransportError, r.trace)
    ELSE Returns(PyNone, r.trace)

\* the result of device.send_command is dropped
Discard(r) == IF r.exc # NoExc THEN r ELSE Returns(PyNone, r.trace)

_send_command(a, env) == Discard(device_send_command(env, _build_cmd(a)))

\* the dispatch with the texts of the codes 3 and 4 exchanged
NackError_swapped(code) ==
    CASE code = <<"3">> -> TS3Error(PyLit("Not logged in."))
      [] code = <<"4">> -> TS3Error(PyLit("Busy."))
      [] OTHER -> TS3Error(PyStr(code))

\* the exception raised for the error code response_array[2]
NackError(code) ==
    CASE code = <<"1">> -> TS3Error(PyLit("Unknown command"))
      [] code = <<"2">> -> TS3Error(PyLit("Parameter out of range."))
      [] code = <<"3">> -> TS3Error(PyLit("Busy."))
      [] code = <<"4">> -> TS3Error(PyLit("Not logged in."))
      [] code = <<"5">> -> TS3Error(PyLit("Command not yet implemented."))
      [] code = <<"6">> -> TS3Error(PyLit("Message structure incorrect."))
      [] code = <<"7">> ->
            TS3Error(PyLit("Incorrect number of parameters for this command."))
      [] code = <<"8">> -> TS3Error(PyLit("ID not found."))
      [] code = <<"9">> -> TS3Error(PyLit("Internal error."))
      [] code = <<"1", "0">> -> TS3Error(PyLit("Booting."))
      [] code = <<"1", "1">> -> TS3Error(PyLit("DUT not present."))
      [] OTHER -> TS3Error(PyStr(code))

\* _handle_nack_response without its last statement: an unknown error code
\* falls through
_handle_nack_response_known_only(response_array) ==
    IF ~HasItem(response_array, 2) THEN IndexError
    ELSE IF \E n \in 1..11 : Item(response_array, 2) = NatToStr(n)
         THEN NackError(Item(response_array, 2))
         ELSE NoExc

\* the exception _handle_nack_response ends with; every path of it raises
_handle_nack_response(response_array) ==
    IF ~HasItem(response_array, 2) THEN IndexError
    ELSE NackError(Item(response_array, 2))

\* what is left of _get_command_response once the response is split;
\* nack is the exception the NACK handling ended with (NoExc when it was
\* not entered)
CheckExpected_any_code(response_array, expected_command, events, nack) ==
    IF nack # NoExc THEN Raises(nack, events)
    ELSE Returns(PyList(response_array), events)

\* a comparison that lets a carriage return after the status field pass
CheckExpected_stripped(response_array, expected_command, events, nack) ==
    IF nack # NoExc THEN Raises(nack, events)
    ELSE IF Item(response_array, 1)
               \in { expected_command, expected_command \o <<"\r">> }
         THEN Returns(PyList(response_array), events)
         ELSE Raises(TS3Error(PyInt(-1)), events)

CheckExpected(response_array, expected_command, events, nack) ==
    IF nack # NoExc THEN Raises(nack, events)
    ELSE IF Item(response_array, 1) = expected_command
         THEN Returns(PyList(response_array), events)
         ELSE Raises(TS3Error(PyInt(-1)), events)

CheckResponse(response_array, expected_command, events) ==
    IF ~HasItem(response_array, 1) THEN Raises(IndexError, events)
    ELSE CheckExpected(response_array, expected_command, events,
                       IF Item(response_array, 1) = <<"2">>
                       THEN _handle_nack_response(response_array)
                       ELSE NoExc)

\* response = <received>.decode(); response_array = response.split(";")
DecodeAndCheck(r, expected_command) ==
    IF r.exc # NoExc THEN r
    ELSE IF \E i \in 1..Len(r.ret) : r.ret[i] >= 128
         THEN Raises(UnicodeDecodeError, r.trace)
    ELSE CheckResponse(split(decode(r.ret), ";"), expected_command, r.trace)

_get_command_response(expected_command, env) ==
    DecodeAndCheck(device_receive_output(env, ReceiveLength), expected_command)

(***************************************************************************)
(* Conversions of the per-operation methods.                                *)
(***************************************************************************)
\* str(int(b)) for a bool
BoolToStr(b) == IntToStr(IF b THEN 1 ELSE 0)

\* str(float(v)) for v = tenths / 10, e.g. 0 -> "0.0", 15 -> "1.5", -5 -> "-0.5"
FloatToStr(tenths) ==
    LET m == IF tenths < 0 THEN 0 - tenths ELSE tenths
    IN  (IF tenths < 0 THEN <<"-">> ELSE <<>>)
            \o NatToStr(m \div 10) \o <<".">> \o NatToStr(m % 10)

IsDigit(c) == \E i \in 1..10 : HexDigits[i] = c
DigitValue(c) == (CHOOSE i \in 1..10 : HexDigits[i] = c) - 1

\* str.strip() of the white space among these characters, the carriage return
RECURSIVE StripLeft(_)
StripLeft(s) ==
    IF Len(s) > 0 /\ s[1] = "\r" THEN StripLeft(Tail(s)) ELSE s

RECURSIVE StripRight(_)
StripRight(s) ==
    IF Len(s) > 0 /\ s[Len(s)] = "\r"
    THEN StripRight(SubSeq(s, 1, Len(s) - 1)) ELSE s

RECURSIVE DigitsValue(_)
DigitsValue(ds) ==
    IF Len(ds) = 0 THEN 0
    ELSE 10 * DigitsValue(SubSeq(ds, 1, Len(ds) - 1)) + DigitValue(ds[Len(ds)])

\* float(text) for texts over the digits, '.', '-', '\r' and letters that
\* start no float; texts with an exponent, "inf" or "nan" are not drawn.
\* NoFloat stands for the ValueError float() raises.
NoFloat == [t |-> "ValueError"]
ParseFloat(text) ==
    LET s == StripRight(StripLeft(text))
        neg == Len(s) > 0 /\ s[1] = "-"
        body == IF neg THEN Tail(s) ELSE s
        dots == { i \in 1..Len(body) : body[i] = "." }
        digs == { i \in 1..Len(body) : IsDigit(body[i]) }
        wellFormed == /\ dots \cup digs = 1..Len(body)
                      /\ Cardinality(dots) <= 1
                      /\ digs # {}
        dot == IF dots = {} THEN Len(body) + 1 ELSE CHOOSE i \in dots : TRUE
        whole == SubSeq(body, 1, dot - 1)
        frac == SubSeq(body, dot + 1, Len(body))
        mant == DigitsValue(whole \o frac)
    IN  IF ~wellFormed THEN NoFloat
        ELSE PyFloat(IF neg THEN 0 - mant ELSE mant, Len(frac))

(***************************************************************************)
(* The per-operation methods of TS3.                                        *)
(***************************************************************************)
SettleDelayMs == 500

\* self._send_command(*a); response = self._get_command_response(expected)
Command(a, expected, env) ==
    Then(_send_command(a, env), _get_command_response(expected, env))

\* a method that ends without a return statement
ReturnNone(c) == IF c.exc # NoExc THEN c ELSE [c EXCEPT !.ret = PyNone]

\* return <expression over response[..maxIdx]>: IndexError when a field it
\* reads is missing
Extract(c, maxIdx, Value(_)) ==
    IF c.exc # NoExc THEN c
    ELSE IF ~HasItem(c.ret.fields, maxIdx)
         THEN [c EXCEPT !.exc = IndexError, !.ret = PyNone]
         ELSE [c EXCEPT !.ret = Value(c.ret.fields)]

\* return float(response[2])
FloatOrError(c, f) ==
    IF f = NoFloat THEN [c EXCEPT !.exc = ValueError, !.ret = PyNone]
    ELSE [c EXCEPT !.ret = f]

ExtractFloat(c) ==
    IF c.exc # NoExc THEN c
    ELSE IF ~HasItem(c.ret.fields, 2)
         THEN [c EXCEPT !.exc = IndexError, !.ret = PyNone]
         ELSE FloatOrError(c, ParseFloat(Item(c.ret.fields, 2)))

\* the values the methods return, from the list response
TwoTexts(response) ==
    PyTuple(<<PyStr(Item(response, 2)), PyStr(Item(response, 3))>>)
OneText(response) == PyStr(Item(response, 2))
OneFlag(response) == PyBool(Item(response, 2) = <<"1">>)

\* a poll that numbers its commands
poll_device_numbered(env) ==
    ReturnNone(Command(<<<<"1", "0">>, NatToStr(nOps)>>, <<"1">>, env))

\* a poll that does not read the response
poll_device_no_read(env) == _send_command(<<<<"1", "0">>>>, env)

poll_device(env) == ReturnNone(Command(<<<<"1", "0">>>>, <<"1">>, env))

get_version(env) ==
    Extract(Command(<<<<"1", "3">>>>, <<"1", "3">>, env),
            4, LAMBDA response :
                PyTuple(<<PyStr(Item(response, 2) \o <<".">> \o Item(response, 3)),
                          PyStr(Item(response, 4))>>))

\* a reset that is tried a second time when the first try raised
Retried(c) == IF c.exc = NoExc THEN c ELSE [c EXCEPT !.trace = c.trace \o c.trace]
reset_device_retries(env) ==
    Retried(ReturnNone(Command(<<<<"1", "4">>>>, <<"1">>, env)))

reset_device(env) == ReturnNone(Command(<<<<"1", "4">>>>, <<"1">>, env))

get_product_id(env) ==
    Extract(Command(<<<<"1", "5">>>>, <<"1", "5">>, env), 3, TwoTexts)

\* the SVN query accepting the acknowledgement code instead of its echo
get_svn_expects_ack(env) ==
    Extract(Command(<<<<"1", "6">>>>, <<"1">>, env), 3, TwoTexts)

get_svn(env) ==
    Extract(Command(<<<<"1", "6">>>>, <<"1", "6">>, env), 3, TwoTexts)

\* set_supply accepting the echo of its command code
set_supply_expects_echo(supply, on_off, env) ==
    ReturnNone(Command(<<<<"2", "2">>, BoolToStr(supply), BoolToStr(on_off)>>,
                       <<"2", "2">>, env))

set_supply(supply, on_off, env) ==
    ReturnNone(Command(<<<<"2", "2">>, BoolToStr(supply), BoolToStr(on_off)>>,
                       <<"1">>, env))

set_buzzer(on_off, env) ==
    ReturnNone(Command(<<<<"2", "3">>, BoolToStr(on_off)>>, <<"1">>, env))

\* the settle delay taken before the response is read
set_dut_power_sleeps_first(dut_power, dut_enable, overrule, env) ==
    Then(_send_command(<<<<"2", "4">>, BoolToStr(dut_power),
                         BoolToStr(dut_enable), BoolToStr(overrule)>>, env),
         Then(Returns(PyNone, <<SleepEvent(SettleDelayMs)>>),
              ReturnNone(_get_command_response(<<"1">>, env))))

set_dut_power(dut_power, dut_enable, overrule, env) ==
    Then(ReturnNone(Command(<<<<"2", "4">>, BoolToStr(dut_power),
                              BoolToStr(dut_enable), BoolToStr(overrule)>>,
                            <<"1">>, env)),
         Returns(PyNone, <<SleepEvent(SettleDelayMs)>>))

get_dut_present(env) ==
    Extract(Command(<<<<"2", "5">>>>, <<"2", "5">>, env), 2, OneFlag)

get_power_supply(power_supply, env) ==
    Extract(Command(<<<<"2", "6">>, IntToStr(power_supply)>>, <<"2", "6">>, env), 2, OneFlag)

\* both relay states read from response[2]
get_dut_power_same_field(env) ==
    Extract(Command(<<<<"2", "7">>>>, <<"1">>, env),
            3, LAMBDA response :
                PyTuple(<<PyBool(Item(response, 2) = <<"1">>),
                          PyBool(Item(response, 2) = <<"1">>)>>))

get_dut_power(env) ==
    Extract(Command(<<<<"2", "7">>>>, <<"1">>, env),
            3, LAMBDA response :
                PyTuple(<<PyBool(Item(response, 2) = <<"1">>),
                          PyBool(Item(response, 3) = <<"1">>)>>))

set_dig_output_pin(module, pin, value, env) ==
    ReturnNone(Command(<<<<"4", "0">>, IntToStr(module), IntToStr(pin),
                         BoolToStr(value)>>, <<"1">>, env))

get_dig_input_pin(module, pin, env) ==
    Extract(Command(<<<<"4", "1">>, IntToStr(module), IntToStr(pin)>>,
                     <<"4", "1">>, env), 2, OneFlag)

set_ana_output_pin(module, pin, value, env) ==
    ReturnNone(Command(<<<<"4", "2">>, IntToStr(module), IntToStr(pin),
                         FloatToStr(value)>>, <<"1">>, env))

get_ana_input_pin(module, pin, input_range, env) ==
    ExtractFloat(Command(<<<<"4", "3">>, IntToStr(module), IntToStr(pin),
                           IntToStr(input_range)>>, <<"4", "3">>, env))

set_pwm_pin(frequency, duty_cycle, env) ==
    ReturnNone(Command(<<<<"4", "4">>, IntToStr(frequency),
                         IntToStr(duty_cycle)>>, <<"1">>, env))

get_user_highlow_input_pin(module, pin, high_low, timeout, env) ==
    Extract(Command(<<<<"4", "5">>, IntToStr(module), IntToStr(pin),
                       IntToStr(high_low), IntToStr(timeout)>>,
                     <<"4", "5">>, env), 2, OneFlag)

\* p = <<module_a, pin_a, range_a, delay, module_b, pin_b, range_b>>
get_diff_ana_input_pin(p, env) ==
    ExtractFloat(Command(<<<<"4", "6">>>> \o [i \in 1..7 |-> IntToStr(p[i])],
                         <<"4", "6">>, env))

uart_txd(module, port, message, env) ==
    ReturnNone(Command(<<<<"1", "0", "0">>, IntToStr(module), IntToStr(port),
                         message>>, <<"1">>, env))

uart_rxd(module, port, env) ==
    Extract(Command(<<<<"1", "0", "1">>, IntToStr(module), IntToStr(port)>>,
                     <<"1", "0", "1">>, env), 2, OneText)

\* p = <<module, port, baudrate, databits, stopbits, parity>>
uart_set(p, env) ==
    ReturnNone(Command(<<<<"1", "0", "2">>>> \o [i \in 1..6 |-> IntToStr(p[i])],
                       <<"1">>, env))

uart_flush(module, port, env) ==
    ReturnNone(Command(<<<<"1", "0", "3">>, IntToStr(module), IntToStr(port)>>,
                       <<"1">>, env))

i2c_txd(module, port, i2c_address, message, env) ==
    ReturnNone(Command(<<<<"1", "4", "0">>, IntToStr(module), IntToStr(port),
                         IntToStr(i2c_address), message>>, <<"1">>, env))

\* p = <<module, port, i2c_address, rxd_number_of_bytes>>
i2c_rxd(p, message, env) ==
    Extract(Command(<<<<"1", "4", "1">>>> \o [i \in 1..4 |-> IntToStr(p[i])]
                        \o <<message>>, <<"1", "4", "1">>, env), 2, OneText)

get_date(env) ==
    Extract(Command(<<<<"8", "0">>>>, <<"8", "0">>, env),
            7, LAMBDA response :
                PyTuple([i \in 1..6 |-> PyStr(Item(response, i + 1))]))

\* given = <<year, month, day, hour, minute, second>>, each an int or PyNone;
\* now = datetime.datetime.now() as the same six fields
set_date(given, now, env) ==
    LET p == [i \in 1..6 |-> IF given[i] = PyNone THEN now[i] ELSE given[i].int]
    IN  ReturnNone(Command(<<<<"8", "1">>>> \o [i \in 1..6 |-> IntToStr(p[i])],
                           <<"1">>, env))

get_user(env) ==
    Extract(Command(<<<<"8", "2">>>>, <<"8", "2">>, env), 2, OneText)

set_user(username, env) ==
    ReturnNone(Command(<<<<"8", "3">>, username>>, <<"1">>, env))

get_script_filename(env) ==
    Extract(Command(<<<<"8", "4">>>>, <<"8", "4">>, env), 2, OneText)

set_script_filename(script_file_name, env) ==
    ReturnNone(Command(<<<<"8", "5">>, script_file_name>>, <<"1">>, env))

get_id(env) ==
    Extract(Command(<<<<"8", "6">>>>, <<"8", "6">>, env), 3, TwoTexts)

set_id(project_number, class_number, env) ==
    ReturnNone(Command(<<<<"8", "7">>, IntToStr(project_number),
                         IntToStr(class_number)>>, <<"1">>, env))

get_external_modules(env) ==
    Extract(Command(<<<<"8", "8">>>>, <<"8", "8">>, env),
            17, LAMBDA response :
                PyTuple([i \in 1..16 |-> PyStr(Item(response, i + 1))]))

get_external_module_details(module, env) ==
    Extract(Command(<<<<"8", "9">>, IntToStr(module)>>, <<"8", "9">>, env), 3, TwoTexts)

firmware_line(mhx_file_line, env) ==
    ReturnNone(Command(<<<<"2", "0", "0">>, mhx_file_line>>, <<"1">>, env))

perform_flash(env) == ReturnNone(Command(<<<<"2", "0", "1">>>>, <<"1">>, env))

(***************************************************************************)
(* The environment: what the device answers and what the transport does.    *)
(***************************************************************************)
\* status fields a device may answer a command of the given code with
StatusFields(code) ==
    { <<"1">>, <<"2">>, <<"9", "9">>, <<"1", "\r">>, code, code \o <<"\r">> }

\* responses as field lists: nothing at all, the framing field alone, a
\* status, a status with one or two payload fields, longer answers (around
\* the six fields get_date reads and around the longest answer), and the
\* negative acknowledgements of the eleven known error codes and the
\* numbers next to them
ResponseFields(code) ==
    { <<<<>>>>, <<<<"0">>>> }
      \cup { <<<<"0">>, s>> : s \in StatusFields(code) }
      \cup { <<<<"0">>, s, p>> : s \in StatusFields(code),
                p \in { <<>>, <<"1">>, <<"0">>, <<"3">>, <<"1", "1">>,
                        <<"1", "2">>, <<"3", ".", "1", "4">>, <<"1", "\r">>,
                        <<"x">> } }
      \cup { <<<<"0">>, s, p[1], p[2]>> : s \in StatusFields(code),
                p \in { <<<<"1">>, <<"0">>>>, <<<<"0">>, <<"1">>>> } }
      \cup { <<<<"0">>, s>> \o [i \in 1..n |-> <<"1">>] :
                s \in { <<"2">>, code },
                n \in { 5, 6, MaxFields - 3, MaxFields - 2 } }
      \cup { <<<<"0">>, <<"2">>, IntToStr(n)>> : n \in 0..12 }
      \cup { <<<<"0">>, <<"2">>, <<"3">>, <<>>>> }

\* the byte fields of every response, one of them no UTF-8 text
Responses(code) ==
    { [i \in 1..Len(f) |-> encode(f[i])] : f \in ResponseFields(code) }
        \cup { <<encode(<<"0">>), <<InvalidByte>>>> }

NoTransport == Transport(FALSE, FALSE, FALSE, <<>>)

\* send raises; or send returns (the byte count or 0) and receive raises or
\* returns a response
Envs(code) ==
    { Transport(TRUE, FALSE, FALSE, <<>>) }
      \cup { Transport(FALSE, short, TRUE, <<>>) : short \in BOOLEAN }
      \cup { Transport(FALSE, short, FALSE, r) :
                short \in BOOLEAN, r \in Responses(code) }

(***************************************************************************)
(* The caller: one method of one adapter at a time.                         *)
(***************************************************************************)
NoOutcome == [exc |-> NoExc, ret |-> PyNone]

\* the adapter as __init__ leaves it, no call made yet, the media untouched
Constructed ==
    /\ _device = "device"
    /\ prev = <<>>
    /\ _serial = [is_open |-> FALSE]
    /\ _socket = <<>>

Init ==
    /\ pc = "idle"
    /\ op = ""
    /\ dev = NoTransport
    /\ trace = <<>>
    /\ outcome = NoOutcome
    /\ calls = <<>>
    /\ nOps = 0
    /\ args = <<>>
    /\ frame = <<>>
    /\ expect = <<>>
    /\ Constructed

\* the transport calls among the events of a call
TransportCalls(events) ==
    LET io == SelectSeq(events, LAMBDA e : e.ev # "sleep")
    IN  [i \in 1..Len(io) |-> [ev |-> io[i].ev, ok |-> io[i].ok]]

\* the caller is free to call a method
CanCall == pc = "idle" /\ nOps < MaxOps

\* a call ended as the completion c
Ended(c) ==
    /\ trace' = c.trace
    /\ outcome' = [exc |-> c.exc, ret |-> c.ret]
    /\ calls' = calls \o TransportCalls(c.trace)

\* the caller calls the method `name`, which ends as the completion c
Call(name, c, e) ==
    /\ pc' = "returned"
    /\ op' = name
    /\ dev' = e
    /\ Ended(c)
    /\ nOps' = nOps + 1
    /\ UNCHANGED <<args, frame, expect, _device, prev, _serial, _socket>>

\* the caller has the result or the exception in hand and goes on
Return ==
    /\ pc = "returned"
    /\ pc' = "idle"
    /\ op' = ""
    /\ dev' = NoTransport
    /\ trace' = <<>>
    /\ outcome' = NoOutcome
    /\ UNCHANGED <<calls, nOps, args, frame, expect,
                   _device, prev, _serial, _socket>>

PollDevice ==
    /\ CanCall
    /\ \E e \in Envs(<<"1", "0">>) : Call("poll_device", poll_device(e), e)

GetVersion ==
    /\ CanCall
    /\ \E e \in Envs(<<"1", "3">>) : Call("get_version", get_version(e), e)

ResetDevice ==
    /\ CanCall
    /\ \E e \in Envs(<<"1", "4">>) : Call("reset_device", reset_device(e), e)

GetProductId ==
    /\ CanCall
    /\ \E e \in Envs(<<"1", "5">>) : Call("get_product_id", get_product_id(e), e)

GetSvn ==
    /\ CanCall
    /\ \E e \in Envs(<<"1", "6">>) : Call("get_svn", get_svn(e), e)

SetSupply ==
    /\ CanCall
    /\ \E b \in {TRUE}, e \in Envs(<<"2", "2">>) :
           Call("set_supply", set_supply(b, ~b, e), e)

SetBuzzer ==
    /\ CanCall
    /\ \E b \in {TRUE}, e \in Envs(<<"2", "3">>) :
           Call("set_buzzer", set_buzzer(b, e), e)

SetDutPower ==
    /\ CanCall
    /\ \E b \in BOOLEAN, e \in Envs(<<"2", "4">>) :
           Call("set_dut_power", set_dut_power(b, b, FALSE, e), e)

GetDutPresent ==
    /\ CanCall
    /\ \E e \in Envs(<<"2", "5">>) : Call("get_dut_present", get_dut_present(e), e)

GetPowerSupply ==
    /\ CanCall
    /\ \E n \in {0}, e \in Envs(<<"2", "6">>) :
           Call("get_power_supply", get_power_supply(n, e), e)

GetDutPower ==
    /\ CanCall
    /\ \E e \in Envs(<<"2", "7">>) : Call("get_dut_power", get_dut_power(e), e)

SetDigOutputPin ==
    /\ CanCall
    /\ \E b \in BOOLEAN, e \in Envs(<<"4", "0">>) :
           Call("set_dig_output_pin", set_dig_output_pin(0, 1, b, e), e)

GetDigInputPin ==
    /\ CanCall
    /\ \E m \in {0}, e \in Envs(<<"4", "1">>) :
           Call("get_dig_input_pin", get_dig_input_pin(m, 1, e), e)

SetAnaOutputPin ==
    /\ CanCall
    /\ \E v \in {33, -5}, e \in Envs(<<"4", "2">>) :
           Call("set_ana_output_pin", set_ana_output_pin(0, 1, v, e), e)

GetAnaInputPin ==
    /\ CanCall
    /\ \E p \in {1}, e \in Envs(<<"4", "3">>) :
           Call("get_ana_input_pin", get_ana_input_pin(0, p, 0, e), e)

SetPwmPin ==
    /\ CanCall
    /\ \E d \in {100}, e \in Envs(<<"4", "4">>) :
           Call("set_pwm_pin", set_pwm_pin(1, d, e), e)

GetUserHighlowInputPin ==
    /\ CanCall
    /\ \E h \in {0}, e \in Envs(<<"4", "5">>) :
           Call("get_user_highlow_input_pin",
                get_user_highlow_input_pin(0, 1, h, 5, e), e)

GetDiffAnaInputPin ==
    /\ CanCall
    /\ \E p \in { <<0, 1, 0, 10, 1, 2, 1>> },
          e \in Envs(<<"4", "6">>) :
           Call("get_diff_ana_input_pin", get_diff_ana_input_pin(p, e), e)

UartTxd ==
    /\ CanCall
    /\ \E t \in {<<"A", "B">>}, e \in Envs(<<"1", "0", "0">>) :
           Call("uart_txd", uart_txd(0, 0, t, e), e)

UartRxd ==
    /\ CanCall
    /\ \E m \in {0}, e \in Envs(<<"1", "0", "1">>) :
           Call("uart_rxd", uart_rxd(m, 0, e), e)

UartSet ==
    /\ CanCall
    /\ \E p \in { <<0, 0, 9600, 8, 1, 5>> },
          e \in Envs(<<"1", "0", "2">>) :
           Call("uart_set", uart_set(p, e), e)

UartFlush ==
    /\ CanCall
    /\ \E m \in {1}, e \in Envs(<<"1", "0", "3">>) :
           Call("uart_flush", uart_flush(m, 0, e), e)

I2cTxd ==
    /\ CanCall
    /\ \E t \in {<<"A", "B">>}, e \in Envs(<<"1", "4", "0">>) :
           Call("i2c_txd", i2c_txd(0, 0, 80, t, e), e)

I2cRxd ==
    /\ CanCall
    /\ \E n \in {2}, e \in Envs(<<"1", "4", "1">>) :
           Call("i2c_rxd", i2c_rxd(<<0, 0, 80, n>>, <<>>, e), e)

GetDate ==
    /\ CanCall
    /\ \E e \in Envs(<<"8", "0">>) : Call("get_date", get_date(e), e)

SetDate ==
    /\ CanCall
    /\ \E g \in { [i \in 1..6 |-> PyNone],
                  [i \in 1..6 |-> IF i = 1 THEN PyInt(1999) ELSE PyNone] },
          e \in Envs(<<"8", "1">>) :
           Call("set_date", set_date(g, <<2022, 3, 14, 15, 9, 26>>, e), e)

GetUser ==
    /\ CanCall
    /\ \E e \in Envs(<<"8", "2">>) : Call("get_user", get_user(e), e)

SetUser ==
    /\ CanCall
    /\ \E t \in {<<"A", "B">>}, e \in Envs(<<"8", "3">>) :
           Call("set_user", set_user(t, e), e)

GetScriptFilename ==
    /\ CanCall
    /\ \E e \in Envs(<<"8", "4">>) :
           Call("get_script_filename", get_script_filename(e), e)

SetScriptFilename ==
    /\ CanCall
    /\ \E t \in {<<"A", "B">>}, e \in Envs(<<"8", "5">>) :
           Call("set_script_filename", set_script_filename(t, e), e)

GetId ==
    /\ CanCall
    /\ \E e \in Envs(<<"8", "6">>) : Call("get_id", get_id(e), e)

SetId ==
    /\ CanCall
    /\ \E n \in {4711}, e \in Envs(<<"8", "7">>) :
           Call("set_id", set_id(n, 0, e), e)

GetExternalModules ==
    /\ CanCall
    /\ \E e \in Envs(<<"8", "8">>) :
           Call("get_external_modules", get_external_modules(e), e)

GetExternalModuleDetails ==
    /\ CanCall
    /\ \E m \in {1}, e \in Envs(<<"8", "9">>) :
           Call("get_external_module_details", get_external_module_details(m, e), e)

FirmwareLine ==
    /\ CanCall
    /\ \E t \in {<<>>, <<"S", "1", "1", "3">>}, e \in Envs(<<"2", "0", "0">>) :
           Call("firmware_line", firmware_line(t, e), e)

PerformFlash ==
    /\ CanCall
    /\ \E e \in Envs(<<"2", "0", "1">>) : Call("perform_flash", perform_flash(e), e)

Next ==
    \/ PollDevice \/ GetVersion \/ ResetDevice \/ GetProductId \/ GetSvn
    \/ SetSupply \/ SetBuzzer \/ SetDutPower \/ GetDutPresent
    \/ GetPowerSupply \/ GetDutPower \/ SetDigOutputPin \/ GetDigInputPin
    \/ SetAnaOutputPin \/ GetAnaInputPin \/ SetPwmPin
    \/ GetUserHighlowInputPin \/ GetDiffAnaInputPin
    \/ UartTxd \/ UartRxd \/ UartSet \/ UartFlush \/ I2cTxd \/ I2cRxd
    \/ GetDate \/ SetDate \/ GetUser \/ SetUser
    \/ GetScriptFilename \/ SetScriptFilename \/ GetId \/ SetId
    \/ GetExternalModules \/ GetExternalModuleDetails
    \/ FirmwareLine \/ PerformFlash
    \/ Return

Spec == Init /\ [][Next]_vars

(***************************************************************************)
(* _build_cmd alone, applied to argument tuples.                            *)
(***************************************************************************)
\* the argument tuples: none, a command code alone, a command code with a
\* firmware line or a user name (short ones, those around a frame of 100
\* characters and those around a frame of 1000 characters), the arguments of
\* set_dut_power
FrameArgs ==
    { <<>> }
      \cup { <<c>> : c \in
            { <<"1", "0">>, <<"1", "3">>, <<"1", "4">>, <<"1", "5">>, <<"1", "6">>,
            <<"2", "2">>, <<"2", "3">>, <<"2", "4">>, <<"2", "5">>, <<"2", "6">>,
            <<"2", "7">>, <<"4", "0">>, <<"4", "1">>, <<"4", "2">>, <<"4", "3">>,
            <<"4", "4">>, <<"4", "5">>, <<"4", "6">>, <<"8", "0">>, <<"8", "1">>,
            <<"8", "2">>, <<"8", "3">>, <<"8", "4">>, <<"8", "5">>, <<"8", "6">>,
            <<"8", "7">>, <<"8", "8">>, <<"8", "9">>, <<"1", "0", "0">>,
            <<"1", "0", "1">>, <<"1", "0", "2">>, <<"1", "0", "3">>,
            <<"1", "4", "0">>, <<"1", "4", "1">>, <<"2", "0", "0">>,
            <<"2", "0", "1">> } }
      \cup { <<c, [i \in 1..n |-> "A"]>> :
                c \in { <<"2", "0", "0">>, <<"8", "3">> },
                n \in (0..3) \cup (84..88) \cup ((MaxArgLen - 10)..MaxArgLen) }
      \cup { <<<<"2", "4">>, BoolToStr(x), BoolToStr(y), BoolToStr(z)>> :
                x \in BOOLEAN, y \in BOOLEAN, z \in BOOLEAN }

FrameInit ==
    /\ pc = "start"
    /\ op = "_build_cmd"
    /\ args \in FrameArgs
    /\ frame = <<>>
    /\ dev = NoTransport
    /\ trace = <<>>
    /\ outcome = NoOutcome
    /\ calls = <<>>
    /\ nOps = 0
    /\ expect = <<>>
    /\ Constructed

BuildCmd ==
    /\ pc = "start"
    /\ op = "_build_cmd"
    /\ frame' = _build_cmd(args)
    /\ pc' = "done"
    /\ UNCHANGED <<op, dev, trace, outcome, calls, nOps, args, expect,
                   _device, prev, _serial, _socket>>

SpecFrame == FrameInit /\ [][BuildCmd]_vars

(***************************************************************************)
(* _get_command_response alone, applied to expected codes and responses.    *)
(***************************************************************************)
ResponseInit ==
    /\ pc = "start"
    /\ op = "_get_command_response"
    /\ expect \in { <<"1">>, <<"2">>, <<"1", "3">>, <<"8", "8">> }
    /\ dev \in { Transport(FALSE, FALSE, TRUE, <<>>) }
                 \cup { Transport(FALSE, FALSE, FALSE, r) : r \in Responses(expect) }
    /\ trace = <<>>
    /\ outcome = NoOutcome
    /\ calls = <<>>
    /\ nOps = 0
    /\ args = <<>>
    /\ frame = <<>>
    /\ Constructed

GetCommandResponse ==
    /\ pc = "start"
    /\ op = "_get_command_response"
    /\ Ended(_get_command_response(expect, dev))
    /\ pc' = "done"
    /\ UNCHANGED <<op, dev, nOps, args, frame, expect,
                   _device, prev, _serial, _socket>>

SpecResponse == ResponseInit /\ [][GetCommandResponse]_vars

(***************************************************************************)
(* SerialDevice: send_command and receive_output on a pyserial line.  The   *)
(* line's open() and its write()/readline() return or raise; trace is the   *)
(* list of the calls made on the line, each with the state of the line at   *)
(* the moment of the call.                                                  *)
(***************************************************************************)
\* number of calls made on one SerialDevice
MaxSerialCalls == 3

\* open() on every call, whatever is_open says
EnsureOpen_always(line, openRaises) ==
    [line |-> [line EXCEPT !.is_open = ~openRaises],
     log |-> <<[call |-> "open", was_open |-> line.is_open, ok |-> ~openRaises]>>,
     raised |-> openRaises]

\* if self._serial.is_open is False: self._serial.open()
EnsureOpen(line, openRaises) ==
    IF line.is_open = FALSE
    THEN [line |-> [line EXCEPT !.is_open = ~openRaises],
          log |-> <<[call |-> "open", was_open |-> FALSE, ok |-> ~openRaises]>>,
          raised |-> openRaises]
    ELSE [line |-> line, log |-> <<>>, raised |-> FALSE]

\* the rest of a method after the line was seen to: one call on the line,
\* whose result is returned
SerialIo(e, call, ioRaises, result) ==
    /\ _serial' = e.line
    /\ trace' = trace \o e.log \o
                  (IF e.raised THEN <<>>
                   ELSE <<[call |-> call, was_open |-> e.line.is_open,
                           ok |-> ~ioRaises]>>)
    /\ outcome' = IF e.raised \/ ioRaises
                  THEN [exc |-> [cls |-> "SerialException"], ret |-> PyNone]
                  ELSE [exc |-> NoExc, ret |-> result]
    /\ nOps' = nOps + 1
    /\ UNCHANGED <<pc, dev, calls, frame, expect, _device, _socket>>

SerialSendCommand ==
    /\ pc = "serial" /\ nOps < MaxSerialCalls
    /\ \E data \in { <<>>, <<36, 13>> },
          openRaises \in BOOLEAN, ioRaises \in BOOLEAN :
          /\ op' = "send_command"
          /\ args' = <<data>>
          /\ UNCHANGED prev
          /\ SerialIo(EnsureOpen(_serial, openRaises), "write", ioRaises,
                      PyInt(Len(data)))

\* a receive_output that hands out no more than length bytes of the line
SerialReceiveOutput_limited ==
    /\ pc = "serial" /\ nOps < MaxSerialCalls
    /\ \E length \in { 1, ReceiveLength },
          readline \in { <<>>, <<48, 59, 49, 10>>,
                         [i \in 1..(ReceiveLength + 1) |->
                             IF i = ReceiveLength + 1 THEN 10 ELSE 48 + (i % 10)] },
          openRaises \in BOOLEAN, ioRaises \in BOOLEAN :
          /\ op' = "receive_output"
          /\ args' = <<length>>
          /\ prev' = readline
          /\ SerialIo(EnsureOpen(_serial, openRaises), "readline", ioRaises,
                      IF Len(readline) <= length THEN readline
                      ELSE SubSeq(readline, 1, length))

\* readline() takes no limit: the line read may be longer than length.  The
\* line waiting on the medium is nothing (a timeout), a short response or a
\* line of more bytes than the TS3 adapter asks for; prev keeps it.
SerialReceiveOutput ==
    /\ pc = "serial" /\ nOps < MaxSerialCalls
    /\ \E length \in { 1, ReceiveLength },
          readline \in { <<>>, <<48, 59, 49, 10>>,
                         [i \in 1..(ReceiveLength + 1) |->
                             IF i = ReceiveLength + 1 THEN 10 ELSE 48 + (i % 10)] },
          openRaises \in BOOLEAN, ioRaises \in BOOLEAN :
          /\ op' = "receive_output"
          /\ args' = <<length>>
          /\ prev' = readline
          /\ SerialIo(EnsureOpen(_serial, openRaises), "readline", ioRaises,
                      readline)

\* a SerialDevice around a line that is closed or already open
SerialInit ==
    /\ pc = "serial" /\ op = "" /\ dev = NoTransport /\ trace = <<>>
    /\ outcome = NoOutcome /\ calls = <<>> /\ nOps = 0 /\ args = <<>>
    /\ frame = <<>> /\ expect = <<>> /\ _device = "device" /\ prev = <<>>
    /\ _socket = <<>>
    /\ _serial \in { [is_open |-> b] : b \in BOOLEAN }

SpecSerial == SerialInit /\ [][SerialSendCommand \/ SerialReceiveOutput]_vars

(***************************************************************************)
(* MX100TP: save_settings and recall_settings.  The adapter hands a text    *)
(* (not bytes) to send_command and reads nothing back.                      *)
(***************************************************************************)
\* the memory stores a caller asks for: 0..49 and the numbers around them
MaxStore == 51

\* save_settings with the two ends of the range excluded
save_settings_exclusive(memory_store, env) ==
    IF memory_store <= 0 \/ memory_store >= 49 THEN Raises(ValueError, <<>>)
    ELSE ReturnNone(device_send_command(env,
            <<"*", "S", "A", "V", " ">> \o IntToStr(memory_store) \o <<"\n">>))

save_settings(memory_store, env) ==
    IF memory_store < 0 \/ memory_store > 49 THEN Raises(ValueError, <<>>)
    ELSE ReturnNone(device_send_command(env,
            <<"*", "S", "A", "V", " ">> \o IntToStr(memory_store) \o <<"\n">>))

recall_settings(memory_store, env) ==
    IF memory_store < 0 \/ memory_store > 49 THEN Raises(ValueError, <<>>)
    ELSE ReturnNone(device_send_command(env,
            <<"*", "R", "C", "L", " ">> \o IntToStr(memory_store) \o <<"\n">>))

\* the caller calls the method `name` with memory_store, which ends as c
PsuCall(name, memory_store, c, e) ==
    /\ pc' = "returned"
    /\ op' = name
    /\ args' = <<memory_store>>
    /\ dev' = e
    /\ Ended(c)
    /\ nOps' = nOps + 1
    /\ UNCHANGED <<frame, expect, _device, prev, _serial, _socket>>

SaveSettings ==
    /\ CanCall
    /\ \E n \in (-2)..MaxStore,
          e \in { Transport(raises, short, FALSE, <<>>) :
                    raises \in BOOLEAN, short \in BOOLEAN } :
          PsuCall("save_settings", n, save_settings(n, e), e)

RecallSettings ==
    /\ CanCall
    /\ \E n \in (-2)..MaxStore,
          e \in { Transport(raises, short, FALSE, <<>>) :
                    raises \in BOOLEAN, short \in BOOLEAN } :
          PsuCall("recall_settings", n, recall_settings(n, e), e)

SpecPsu == Init /\ [][SaveSettings \/ RecallSettings \/ Return]_vars

(***************************************************************************)
(* TCPIPDevice: receive_output on a connected socket.  _socket is the bytes *)
(* that have arrived and wait in the socket's buffer; recv(bufsize) takes   *)
(* some of them from the front, at least one and at most bufsize, returns   *)
(* b"" when nothing is left (the peer has closed), or raises.  trace is the *)
(* list of the recv calls one receive_output made, prev the buffer before.  *)
(***************************************************************************)
\* number of receive_output calls on one TCPIPDevice
MaxTcpCalls == 3
\* the most bytes waiting in the socket's buffer
MaxPending == 600

\* a receive_output that reads once more when the first read came short
tcp_receive_output_accumulates(sock, length, k, raises) ==
    LET got == IF k < Len(sock) THEN k ELSE Len(sock)
        all == IF length < Len(sock) THEN length ELSE Len(sock)
    IN  [sock |-> SubSeq(sock, all + 1, Len(sock)),
         log |-> <<[call |-> "recv", limit |-> length,
                    data |-> SubSeq(sock, 1, got), ok |-> TRUE],
                   [call |-> "recv", limit |-> length - got,
                    data |-> SubSeq(sock, got + 1, all), ok |-> TRUE]>>,
         exc |-> NoExc,
         ret |-> SubSeq(sock, 1, all)]

\* return self._socket.recv(length), recv handing out k bytes if that many
\* wait and length allows it
tcp_receive_output(sock, length, k, raises) ==
    LET most == IF length < Len(sock) THEN length ELSE Len(sock)
        got == IF k < most THEN k ELSE most
    IN  IF raises
        THEN [sock |-> sock,
              log |-> <<[call |-> "recv", limit |-> length, data |-> <<>>,
                         ok |-> FALSE]>>,
              exc |-> [cls |-> "OSError"],
              ret |-> PyNone]
        ELSE [sock |-> SubSeq(sock, got + 1, Len(sock)),
              log |-> <<[call |-> "recv", limit |-> length,
                         data |-> SubSeq(sock, 1, got), ok |-> TRUE]>>,
              exc |-> NoExc,
              ret |-> SubSeq(sock, 1, got)]

\* a caller of its own choosing asks for 1 or 2 bytes; the TS3 adapter asks
\* for what _get_command_response passes to receive_output
TcpReceiveOutput ==
    /\ pc = "tcp" /\ nOps < MaxTcpCalls
    /\ \E caller \in {"direct", "TS3"}, length \in {1, 2}, k \in {1, MaxPending},
          raises \in BOOLEAN :
          /\ caller = "TS3" => length = 1
          /\ args' = <<IF caller = "TS3"
                       THEN _get_command_response(<<"1">>, NoTransport).trace[1].length
                       ELSE length, caller>>
          /\ op' = "receive_output"
          /\ prev' = _socket
          /\ _socket' = tcp_receive_output(_socket, args'[1], k, raises).sock
          /\ trace' = tcp_receive_output(_socket, args'[1], k, raises).log
          /\ outcome' = [exc |-> tcp_receive_output(_socket, args'[1], k, raises).exc,
                         ret |-> tcp_receive_output(_socket, args'[1], k, raises).ret]
          /\ nOps' = nOps + 1
          /\ UNCHANGED <<pc, dev, calls, frame, expect, _device, _serial>>

\* a connected socket with nothing, little, about 512 or more bytes waiting
TcpInit ==
    /\ pc = "tcp" /\ op = "" /\ dev = NoTransport /\ trace = <<>>
    /\ outcome = NoOutcome /\ calls = <<>> /\ nOps = 0 /\ args = <<>>
    /\ frame = <<>> /\ expect = <<>> /\ _device = "device" /\ prev = <<>>
    /\ _serial = [is_open |-> FALSE]
    /\ _socket \in { [i \in 1..n |-> 48 + (i % 10)] :
                       n \in { 0, 3, ReceiveLength - 1, ReceiveLength,
                               ReceiveLength + 1, MaxPending } }

SpecTcp == TcpInit /\ [][TcpReceiveOutput]_vars

(***************************************************************************)
(* One adapter used again and again: methods and _build_cmd called in any   *)
(* order, the same call made more than once.  prev is the set of the calls  *)
(* made before the last one, each with its input and how it ended.          *)
(***************************************************************************)
\* number of calls made on the adapter
MaxRepeats == 3

\* the caller calls poll_device, get_dut_power or set_dut_power
RepeatCall ==
    /\ pc = "repeat" /\ nOps < MaxRepeats
    /\ \E m \in {"poll_device", "get_dut_power", "set_dut_power"},
          b \in BOOLEAN,
          e \in { Transport(TRUE, FALSE, FALSE, <<>>),
                  Transport(FALSE, FALSE, TRUE, <<>>),
                  Transport(FALSE, FALSE, FALSE, <<<<48>>, <<49>>, <<>>>>),
                  Transport(FALSE, FALSE, FALSE, <<<<48>>, <<50>>, <<51>>>>) } :
          /\ m = "set_dut_power" \/ b
          /\ prev' = IF op = "" THEN prev
                      ELSE prev \cup {[op |-> op, args |-> args, dev |-> dev,
                                       outcome |-> outcome, trace |-> trace,
                                       frame |-> frame]}
          /\ op' = m
          /\ args' = <<b>>
          /\ dev' = e
          /\ Ended(CASE m = "poll_device" -> poll_device(e)
                     [] m = "get_dut_power" -> get_dut_power(e)
                     [] OTHER -> set_dut_power(b, b, FALSE, e))
          /\ frame' = <<>>
          /\ nOps' = nOps + 1
          /\ UNCHANGED <<pc, expect, _device, _serial, _socket>>

\* the caller calls _build_cmd
RepeatBuild ==
    /\ pc = "repeat" /\ nOps < MaxRepeats
    /\ \E a \in { <<<<"1", "0">>>>, <<<<"2", "7">>>>,
                  <<<<"2", "4">>, <<"1">>, <<"0">>, <<"0">>>> } :
          /\ prev' = IF op = "" THEN prev
                      ELSE prev \cup {[op |-> op, args |-> args, dev |-> dev,
                                       outcome |-> outcome, trace |-> trace,
                                       frame |-> frame]}
          /\ op' = "_build_cmd"
          /\ args' = a
          /\ frame' = _build_cmd(a)
          /\ dev' = NoTransport
          /\ trace' = <<>>
          /\ outcome' = NoOutcome
          /\ nOps' = nOps + 1
          /\ UNCHANGED <<pc, calls, expect, _device, _serial, _socket>>

RepeatInit ==
    /\ pc = "repeat" /\ op = "" /\ dev = NoTransport /\ trace = <<>>
    /\ outcome = NoOutcome /\ calls = <<>> /\ nOps = 0 /\ args = <<>>
    /\ frame = <<>> /\ expect = <<>> /\ _device = "device" /\ prev = {}
    /\ _serial = [is_open |-> FALSE] /\ _socket = <<>>

SpecRepeat == RepeatInit /\ [][RepeatCall \/ RepeatBuild]_vars

(***************************************************************************)
(* What the claims are stated over: the response as the device sent it      *)
(* (dev.fields, bytes), the tables of the protocol, the outcome of a call.  *)
(***************************************************************************)
\* a response reached the adapter during the last call
Received == ~dev.sendRaises /\ ~dev.recvRaises

\* field i (counted from 0) of the response, as bytes
HasRxField(i) == Len(dev.fields) >= i + 1
RxField(i) == dev.fields[i + 1]

RxDecodable ==
    \A i \in 1..Len(dev.fields) : \A j \in 1..Len(dev.fields[i]) : dev.fields[i][j] < 128

\* the texts "1" and "2" as bytes
ByteOne == <<49>>
ByteTwo == <<50>>

\* the response is a negative acknowledgement
RxNack == Received /\ HasRxField(1) /\ RxField(1) = ByteTwo

\* the fixed messages of the error codes 1..11, in the order of the protocol
NackText ==
    << "Unknown command", "Parameter out of range.", "Busy.", "Not logged in.",
       "Command not yet implemented.", "Message structure incorrect.",
       "Incorrect number of parameters for this command.", "ID not found.",
       "Internal error.", "Booting.", "DUT not present." >>

\* the response code each method accepts, from the protocol's table of
\* command codes: a query accepts the echo of its command code, everything
\* else the acknowledgement code 1
ExpectedOf ==
    [ poll_device |-> <<"1">>, get_version |-> <<"1", "3">>,
      reset_device |-> <<"1">>, get_product_id |-> <<"1", "5">>,
      get_svn |-> <<"1", "6">>, set_supply |-> <<"1">>, set_buzzer |-> <<"1">>,
      set_dut_power |-> <<"1">>, get_dut_present |-> <<"2", "5">>,
      get_power_supply |-> <<"2", "6">>, get_dut_power |-> <<"1">>,
      set_dig_output_pin |-> <<"1">>, get_dig_input_pin |-> <<"4", "1">>,
      set_ana_output_pin |-> <<"1">>, get_ana_input_pin |-> <<"4", "3">>,
      set_pwm_pin |-> <<"1">>, get_user_highlow_input_pin |-> <<"4", "5">>,
      get_diff_ana_input_pin |-> <<"4", "6">>, uart_txd |-> <<"1">>,
      uart_rxd |-> <<"1", "0", "1">>, uart_set |-> <<"1">>,
      uart_flush |-> <<"1">>, i2c_txd |-> <<"1">>,
      i2c_rxd |-> <<"1", "4", "1">>, get_date |-> <<"8", "0">>,
      set_date |-> <<"1">>, get_user |-> <<"8", "2">>, set_user |-> <<"1">>,
      get_script_filename |-> <<"8", "4">>, set_script_filename |-> <<"1">>,
      get_id |-> <<"8", "6">>, set_id |-> <<"1">>,
      get_external_modules |-> <<"8", "8">>,
      get_external_module_details |-> <<"8", "9">>,
      firmware_line |-> <<"1">>, perform_flash |-> <<"1">> ]

\* the response passed the checks of _get_command_response of the method
RxAccepted ==
    /\ Received /\ RxDecodable /\ HasRxField(1)
    /\ RxField(1) # ByteTwo
    /\ RxField(1) = encode(ExpectedOf[op])

(***************************************************************************)
(* C1..C10                                                                  *)
(***************************************************************************)
\* C1: whatever the expected code, the code 2 included, a response whose
\* field 1 is "2" makes _get_command_response raise; it never returns fields.
C1_NackNeverReturns ==
    (pc = "done" /\ RxNack) => outcome.exc # NoExc

\* the expected code is "2" and the response is a NACK with the unknown error
\* code 12: the call raised with the raw code
C1_Witness ==
    /\ pc = "done" /\ expect = <<"2">>
    /\ RxNack /\ HasRxField(2) /\ RxField(2) = <<49, 50>>
    /\ outcome.exc = TS3Error(PyStr(<<"1", "2">>))

\* the exception the protocol prescribes for the error code in field 2
NackPrescribed ==
    IF \E n \in 1..11 : RxField(2) = encode(NatToStr(n))
    THEN TS3Error(PyLit(NackText[CHOOSE n \in 1..11 : RxField(2) = encode(NatToStr(n))]))
    ELSE TS3Error(PyStr(decode(RxField(2))))

\* C2: a NACK whose field 2 is one of "1".."11" makes the method raise
\* TS3Error with the fixed message of that code; with any other field 2 it
\* raises TS3Error carrying that field as received.
C2_NackMessages ==
    (pc = "returned" /\ RxNack /\ RxDecodable /\ HasRxField(2))
        => outcome.exc = NackPrescribed

\* the response "0;2;3;" made a method raise the busy message
C2_Witness ==
    /\ pc = "returned" /\ Received
    /\ dev.fields = <<<<48>>, <<50>>, <<51>>, <<>>>>
    /\ outcome.exc = TS3Error(PyLit("Busy."))

\* C3: a response whose field 1 is the expected code and not "2" is returned
\* as the complete list of its fields, each unchanged and in order, field 0
\* and empty trailing fields included.
C3_ReturnsAllFields ==
    (/\ pc = "done" /\ Received /\ RxDecodable /\ HasRxField(1)
     /\ RxField(1) # ByteTwo /\ RxField(1) = encode(expect))
        => /\ outcome.exc = NoExc
           /\ outcome.ret = PyList([i \in 1..Len(dev.fields) |-> decode(dev.fields[i])])

\* "0;1;" for the expected code 1 came back as the three fields "0", "1", ""
C3_Witness ==
    /\ pc = "done" /\ expect = <<"1">> /\ Received
    /\ dev.fields = <<<<48>>, <<49>>, <<>>>>
    /\ outcome.ret = PyList(<<<<"0">>, <<"1">>, <<>>>>)

\* C4: a response whose field 1 is neither "2" nor the code the method
\* expects makes the method raise TS3Error(-1); nothing is returned.
C4_MismatchRaisesMinusOne ==
    (/\ pc = "returned" /\ Received /\ RxDecodable /\ HasRxField(1)
     /\ RxField(1) # ByteTwo /\ RxField(1) # encode(ExpectedOf[op]))
        => outcome.exc = TS3Error(PyInt(-1))

\* "0;99;" answered a poll, which expects 1
C4_Witness ==
    /\ pc = "returned" /\ op = "poll_device" /\ Received
    /\ dev.fields = <<<<48>>, <<57, 57>>, <<>>>>
    /\ outcome.exc = TS3Error(PyInt(-1))

\* C5: a method returns its result or fails as a transmission failure or as
\* a TS3Error (NACK or mismatch); there is no other failure.
C5_OnlyThreeFailureKinds ==
    pc = "returned" => outcome.exc.cls \in {"none", "TransportError", "TS3Error"}

\* the methods that return one flag
SingleFlagOps ==
    { "get_dut_present", "get_power_supply", "get_dig_input_pin",
      "get_user_highlow_input_pin" }

Slept == \E i \in 1..Len(trace) : trace[i].ev = "sleep"
Acked == Received /\ RxDecodable /\ HasRxField(1) /\ RxField(1) = ByteOne

\* C7: set_dut_power takes its 500 ms delay exactly when the response was
\* accepted as an acknowledgement; a failing call raises without the delay,
\* a successful one returns after send, receive and the whole delay.
C7_DelayOnlyAfterAck ==
    (pc = "returned" /\ op = "set_dut_power") =>
        /\ Slept <=> Acked
        /\ outcome.exc # NoExc => ~Slept
        /\ outcome.exc = NoExc =>
              /\ Len(trace) = 3
              /\ trace[1].ev = "send" /\ trace[2].ev = "recv"
              /\ trace[3].ev = "sleep" /\ trace[3].ms >= 500

C7_Witness ==
    /\ pc = "returned" /\ op = "set_dut_power"
    /\ Acked /\ Slept /\ outcome.exc = NoExc

\* C8 as claimed: the transport calls of one caller strictly alternate send,
\* receive, send, receive, ..., failing methods included.
C8_StrictAlternation ==
    \A i \in 1..Len(calls) :
        calls[i].ev = (IF i % 2 = 1 THEN "send" ELSE "recv")

\* C8 as amended: every receive directly follows a send that returned, every
\* send that returned is directly followed by a receive, and a send directly
\* follows another send only when that earlier send raised.
C8_AlternationUnlessSendRaises ==
    pc \in {"idle", "returned"} =>
        \A i \in 1..Len(calls) :
            /\ calls[i].ev = "recv" =>
                  i > 1 /\ calls[i - 1] = [ev |-> "send", ok |-> TRUE]
            /\ (calls[i].ev = "send" /\ calls[i].ok) =>
                  i < Len(calls) /\ calls[i + 1].ev = "recv"
            /\ (calls[i].ev = "send" /\ i > 1 /\ calls[i - 1].ev = "send") =>
                  ~calls[i - 1].ok

\* two methods in a row, the first one's send raised: send, send, receive
C8_Witness ==
    /\ pc = "returned" /\ Len(calls) = 3
    /\ calls[1] = [ev |-> "send", ok |-> FALSE]
    /\ calls[2] = [ev |-> "send", ok |-> TRUE]
    /\ calls[3].ev = "recv"

IsDecimalByte(b) == b \in 48..57
IsHexByte(b) == b \in (48..57) \cup (65..70)

\* the frame has the shape with a length field of `digits` digits around the
\* joined arguments j
FrameShape(j, digits) ==
    /\ Len(frame) = Len(j) + digits + 8
    /\ frame[1] = 36
    /\ \A i \in 2..(digits + 1) : IsDecimalByte(frame[i])
    /\ frame[digits + 2] = 59
    /\ SubSeq(frame, digits + 3, digits + 2 + Len(j)) = encode(j)
    /\ frame[digits + 3 + Len(j)] = 59
    /\ \A i \in (digits + 4 + Len(j))..(digits + 7 + Len(j)) : IsHexByte(frame[i])
    /\ frame[digits + 8 + Len(j)] = 13

\* C9: every frame is '$', exactly three decimal digits, ';', the arguments
\* joined by ';', ';', exactly four hexadecimal digits and one carriage
\* return.
C9_ThreeDigitShape ==
    pc = "done" => FrameShape(join(<<";">>, args), 3)

\* the value of a sequence of decimal digit bytes
RECURSIVE BytesValue(_)
BytesValue(ds) ==
    IF Len(ds) = 0 THEN 0
    ELSE 10 * BytesValue(SubSeq(ds, 1, Len(ds) - 1)) + (ds[Len(ds)] - 48)

\* the bytes between '$' and the first ';'
LengthField(f) ==
    SubSeq(f, 2, (CHOOSE i \in 1..Len(f) :
                     f[i] = 59 /\ \A k \in 1..(i - 1) : f[k] # 59) - 1)

ZeroPadded3(field, n) ==
    /\ \A i \in 1..Len(field) : IsDecimalByte(field[i])
    /\ BytesValue(field) = n
    /\ Len(field) >= 3
    /\ Len(field) > 3 => field[1] # 48

\* C10: the length field is the length of "$000;<joined args>;0000", that is
\* len(joined args) + 10, in decimal, padded with zeros to three digits.
C10_LengthField ==
    pc = "done" =>
        /\ frame[1] = 36
        /\ ZeroPadded3(LengthField(frame), Len(join(<<";">>, args)) + 10)

\* the poll frame "$012;10;...." carries 012 for the twelve characters of
\* "$000;10;0000"
C10_Witness ==
    /\ pc = "done" /\ args = <<<<"1", "0">>>>
    /\ SubSeq(frame, 1, 5) = <<36, 48, 49, 50, 59>>

(***************************************************************************)
(* C11..C20                                                                 *)
(***************************************************************************)
\* the value of a hexadecimal digit byte and of the two digits at f[i], f[i+1]
HexByteValue(b) == IF b <= 57 THEN b - 48 ELSE b - 55
HexPairValue(f, i) == 16 * HexByteValue(f[i]) + HexByteValue(f[i + 1])

\* the four bytes before the carriage return of a frame
ChecksumField(f) == SubSeq(f, Len(f) - 4, Len(f) - 1)

\* the bytes of "$000;<joined arguments>;0000"
ProvisionalBytes(a) ==
    <<36, 48, 48, 48, 59>> \o encode(join(<<";">>, a)) \o <<59, 48, 48, 48, 48>>

\* C11: the checksum field of a frame is the CRC of the provisional string
\* "$000;<joined arguments>;0000", as four uppercase hexadecimal digits, the
\* pair of the low byte first and the pair of the high byte second.
C11_ChecksumOverPlaceholder ==
    pc = "done" =>
        /\ \A i \in 1..4 : IsHexByte(ChecksumField(frame)[i])
        /\ HexPairValue(ChecksumField(frame), 1)
              = calculate_checksum(ProvisionalBytes(args)) % 256
        /\ HexPairValue(ChecksumField(frame), 3)
              = calculate_checksum(ProvisionalBytes(args)) \div 256

\* the poll frame: the CRC of "$000;10;0000" is C626 and the frame carries 26C6
C11_Witness ==
    /\ pc = "done" /\ args = <<<<"1", "0">>>>
    /\ calculate_checksum(ProvisionalBytes(args)) = 50726
    /\ ChecksumField(frame) = <<50, 54, 67, 54>>

\* the operations that only wait for an acknowledgement
AckOps ==
    { "poll_device", "reset_device", "set_supply", "set_buzzer",
      "set_dut_power", "set_dig_output_pin", "set_ana_output_pin",
      "set_pwm_pin", "uart_txd", "uart_set", "uart_flush", "i2c_txd",
      "set_date", "set_user", "set_script_filename", "set_id",
      "firmware_line", "perform_flash" }

\* C12: an operation that only waits for an acknowledgement returns (None)
\* exactly when a response arrived whose field 1 is "1"; with any other
\* field 1, the echo of its own command code included, it raises.
C12_AckOpsAcceptOnlyOne ==
    (pc = "returned" /\ op \in AckOps) =>
        /\ outcome.exc = NoExc <=> Acked
        /\ outcome.exc = NoExc => outcome.ret = PyNone

\* "0;1;" answered a poll, which returned
C12_Witness ==
    /\ pc = "returned" /\ op = "poll_device" /\ Received
    /\ dev.fields = <<<<48>>, <<49>>, <<>>>>
    /\ outcome = [exc |-> NoExc, ret |-> PyNone]

\* the command code of each operation, from the protocol's table
CommandOf ==
    [ poll_device |-> <<"1", "0">>, get_version |-> <<"1", "3">>,
      reset_device |-> <<"1", "4">>, get_product_id |-> <<"1", "5">>,
      get_svn |-> <<"1", "6">>, set_supply |-> <<"2", "2">>,
      set_buzzer |-> <<"2", "3">>, set_dut_power |-> <<"2", "4">>,
      get_dut_present |-> <<"2", "5">>, get_power_supply |-> <<"2", "6">>,
      get_dut_power |-> <<"2", "7">>, set_dig_output_pin |-> <<"4", "0">>,
      get_dig_input_pin |-> <<"4", "1">>, set_ana_output_pin |-> <<"4", "2">>,
      get_ana_input_pin |-> <<"4", "3">>, set_pwm_pin |-> <<"4", "4">>,
      get_user_highlow_input_pin |-> <<"4", "5">>,
      get_diff_ana_input_pin |-> <<"4", "6">>, get_date |-> <<"8", "0">>,
      set_date |-> <<"8", "1">>, get_user |-> <<"8", "2">>,
      set_user |-> <<"8", "3">>, get_script_filename |-> <<"8", "4">>,
      set_script_filename |-> <<"8", "5">>, get_id |-> <<"8", "6">>,
      set_id |-> <<"8", "7">>, get_external_modules |-> <<"8", "8">>,
      get_external_module_details |-> <<"8", "9">>,
      uart_txd |-> <<"1", "0", "0">>, uart_rxd |-> <<"1", "0", "1">>,
      uart_set |-> <<"1", "0", "2">>, uart_flush |-> <<"1", "0", "3">>,
      i2c_txd |-> <<"1", "4", "0">>, i2c_rxd |-> <<"1", "4", "1">>,
      firmware_line |-> <<"2", "0", "0">>, perform_flash |-> <<"2", "0", "1">> ]

\* the first argument of the frame the operation handed to the transport
SentCode == Item(split(decode(trace[1].data), ";"), 1)

\* C13: every operation sends its command code of the protocol's table as
\* the first argument of the frame; an operation that reads a result accepts
\* a response only when field 1 is that same code, except get_dut_power,
\* which sends 27 and accepts only field 1 = "1".
C13_CommandCodes ==
    pc = "returned" =>
        /\ trace[1].ev = "send"
        /\ SentCode = CommandOf[op]
        /\ (op \notin AckOps /\ outcome.exc = NoExc) =>
              /\ Received /\ HasRxField(1)
              /\ RxField(1) = encode(IF op = "get_dut_power" THEN <<"1">>
                                     ELSE CommandOf[op])

\* get_dut_power sent 27 and accepted the response "0;1;1;0"
C13_Witness ==
    /\ pc = "returned" /\ op = "get_dut_power"
    /\ SentCode = <<"2", "7">>
    /\ dev.fields = <<<<48>>, <<49>>, <<49>>, <<48>>>>
    /\ outcome.exc = NoExc

\* the positions of the open() calls among the calls made on the serial line
OpenCalls == { i \in 1..Len(trace) : trace[i].call = "open" }

\* C14 as claimed: write and readline are invoked only while the line is
\* open, open() only when the line is not open, and open() at most once
\* over the whole sequence of calls.
C14_OpenAtMostOnce ==
    pc = "serial" =>
        /\ \A i \in 1..Len(trace) : trace[i].was_open <=> trace[i].call # "open"
        /\ Cardinality(OpenCalls) <= 1

\* C14 as amended: write and readline are invoked only while the line is
\* open, open() only when the line is not open, and no open() follows an
\* open() that returned; an open() that raised leaves the line closed and the
\* next call invokes open() again.
C14_OpenOnlyWhenClosed ==
    pc = "serial" =>
        /\ \A i \in 1..Len(trace) : trace[i].was_open <=> trace[i].call # "open"
        /\ \A i \in OpenCalls, k \in OpenCalls : (i < k) => ~trace[i].ok
        /\ Cardinality({ i \in OpenCalls : trace[i].ok }) <= 1

\* a line that was closed: open() raised in the first call, was invoked again
\* and returned in the second, and the third call went straight to the line
C14_Witness ==
    /\ pc = "serial" /\ nOps = 3 /\ Len(trace) = 4
    /\ trace[1] = [call |-> "open", was_open |-> FALSE, ok |-> FALSE]
    /\ trace[2] = [call |-> "open", was_open |-> FALSE, ok |-> TRUE]
    /\ trace[3] = [call |-> "write", was_open |-> TRUE, ok |-> TRUE]
    /\ trace[4].call = "readline" /\ trace[4].was_open

\* the text of the command of save_settings / recall_settings for store n
StoreCommand(name, n) ==
    (IF name = "save_settings" THEN <<"*", "S", "A", "V">>
     ELSE <<"*", "R", "C", "L">>) \o <<" ">> \o NatToStr(n) \o <<"\n">>

\* C15: save_settings and recall_settings raise ValueError and make no
\* transport call when memory_store is outside 0..49; for every memory_store
\* in 0..49, 0 and 49 included, they make exactly one transport call, the
\* send of "*SAV <n>" / "*RCL <n>" (with its line feed).
C15_StoreRange ==
    (pc = "returned" /\ op \in {"save_settings", "recall_settings"}) =>
        IF args[1] < 0 \/ args[1] > 49
        THEN outcome.exc = ValueError /\ trace = <<>>
        ELSE /\ Len(trace) = 1
             /\ trace[1].ev = "send"
             /\ trace[1].data = StoreCommand(op, args[1])
             /\ outcome.exc # ValueError

\* store 49 was saved: one send of "*SAV 49" and a return
C15_Witness ==
    /\ pc = "returned" /\ op = "save_settings" /\ args = <<49>>
    /\ Len(trace) = 1
    /\ trace[1].data = <<"*", "S", "A", "V", " ", "4", "9", "\n">>
    /\ outcome = [exc |-> NoExc, ret |-> PyNone]

\* C16: one operation invokes the transport's send at most once and its
\* receive at most once, send first; a transport call that raised is the
\* last thing the operation did, and an operation that raised for any reason
\* did nothing after its receive.
C16_NoRetry ==
    (pc = "returned" /\ op \in DOMAIN CommandOf) =>
        /\ \A i \in 1..Len(trace) :
              /\ trace[i].ev = "send" => i = 1
              /\ trace[i].ev = "recv" => i = 2
              /\ ~trace[i].ok => i = Len(trace) /\ outcome.exc = TransportError
        /\ outcome.exc # NoExc => Len(trace) <= 2

\* get_version was answered "0;2;3;": one send, one receive, the busy error
C16_Witness ==
    /\ pc = "returned" /\ op = "get_version"
    /\ Len(trace) = 2 /\ trace[1].ev = "send" /\ trace[2].ev = "recv"
    /\ trace[2].data = <<48, 59, 50, 59, 51, 59>>
    /\ outcome.exc = TS3Error(PyLit("Busy."))

\* C17: whatever send returns, 0 or a short count included, the operation
\* goes on to read the response and ends as that read ends; only a send that
\* raises ends the operation before the read.
C17_SendResultIgnored ==
    (pc = "returned" /\ op \in DOMAIN CommandOf) =>
        /\ dev.sendRaises =>
              /\ Len(trace) = 1 /\ trace[1].ev = "send"
              /\ outcome.exc = TransportError
        /\ ~dev.sendRaises =>
              /\ Len(trace) >= 2 /\ trace[1].ok
              /\ trace[2] = _get_command_response(ExpectedOf[op], dev).trace[1]
              /\ _get_command_response(ExpectedOf[op], dev).exc # NoExc
                    => outcome.exc = _get_command_response(ExpectedOf[op], dev).exc
              /\ outcome.exc = TransportError => dev.recvRaises

\* send returned 0 for a poll, the response "0;1;" was read and the poll
\* returned
C17_Witness ==
    /\ pc = "returned" /\ op = "poll_device"
    /\ dev.sendShort /\ ~dev.sendRaises
    /\ Len(trace) = 2 /\ trace[2].data = <<48, 59, 49, 59>>
    /\ outcome.exc = NoExc

C20_OneReadWithLimit ==
    (pc = "tcp" /\ op = "receive_output") =>
        /\ Len(trace) = 1
        /\ trace[1].call = "recv" /\ trace[1].limit = args[1]
        /\ trace[1].ok =>
              /\ outcome = [exc |-> NoExc, ret |-> trace[1].data]
              /\ Len(outcome.ret) <= args[1]
              /\ prev = outcome.ret \o _socket
        /\ ~trace[1].ok => outcome.exc # NoExc /\ _socket = prev
        /\ args[2] = "TS3" => args[1] = 512

\* the TS3 adapter's read of 512 got one byte of the 513 that were waiting:
\* that byte was returned and the rest was left in the socket
C20_Witness ==
    /\ pc = "tcp" /\ op = "receive_output" /\ args = <<512, "TS3">>
    /\ Len(prev) = 513
    /\ outcome = [exc |-> NoExc, ret |-> <<49>>]
    /\ Len(_socket) = 512

(***************************************************************************)
(* C21..C23                                                                 *)
(***************************************************************************)
\* the calls one method call added to the log of the line
Added(before, after) == SubSeq(after, Len(before) + 1, Len(after))

\* C21: receive_output of the serial transport does not look at its length
\* argument: whatever the length, a call that returns has made exactly one
\* readline on the open line, as its last call, and returns the whole line
\* that was waiting, however long; a call that raises has made at most one.
C21_SerialIgnoresLength ==
    [][ op' = "receive_output" =>
          LET added == Added(trace, trace')
              reads == { i \in 1..Len(added) : added[i].call = "readline" }
          IN  /\ Cardinality(reads) <= 1
              /\ \A i \in 1..Len(added) : added[i].call \in {"open", "readline"}
              /\ outcome'.exc = NoExc =>
                    /\ reads = { Len(added) }
                    /\ added[Len(added)].ok /\ added[Len(added)].was_open
                    /\ outcome'.ret = prev'
              /\ outcome'.exc # NoExc => outcome'.ret = PyNone ]_vars

\* receive_output(512) returned a line of 513 bytes
C21_Witness ==
    /\ pc = "serial" /\ op = "receive_output" /\ args = <<ReceiveLength>>
    /\ outcome.exc = NoExc
    /\ Len(outcome.ret) = ReceiveLength + 1 /\ outcome.ret = prev
    /\ trace[Len(trace)].call = "readline"

\* C22: when the provisional command "$000;<joined args>;0000" is shorter
\* than 1000 characters, the length field of the frame is the number of
\* characters of the frame without its carriage return; from 1000 characters
\* on the length field has grown by a digit and the two differ.
C22_LengthIsFrameLength ==
    pc = "done" =>
        LET provisional == Len(join(<<";">>, args)) + 10
        IN  /\ frame[Len(frame)] = 13
            /\ provisional < 1000 =>
                  /\ BytesValue(LengthField(frame)) = Len(frame) - 1
                  /\ Len(LengthField(frame)) = 3
            /\ provisional >= 1000 =>
                  /\ BytesValue(LengthField(frame)) # Len(frame) - 1
                  /\ BytesValue(LengthField(frame)) = provisional
                  /\ Len(frame) - 1 = provisional + 1

\* the longest frame that still carries its own length: 999 characters and
\* a carriage return, length field "999"
C22_Witness ==
    /\ pc = "done" /\ Len(args) = 2 /\ Len(args[2]) = 985
    /\ Len(frame) = 1000
    /\ SubSeq(frame, 1, 5) = <<36, 57, 57, 57, 59>>

\* the status field of the response is the code the method accepts with a
\* carriage return after it
RxStatusWithTerminator ==
    /\ Received /\ RxDecodable /\ HasRxField(1)
    /\ RxField(1) = encode(ExpectedOf[op] \o <<"\r">>)

\* C23: the fields of a response are compared as they were received, no
\* terminator taken off: a response whose status field is the accepted code
\* followed by a carriage return ends in TS3Error(-1) in every method, and
\* get_dut_present reports false for an accepted response whose last field
\* is "1\r".
C23_VerbatimComparison ==
    pc = "returned" =>
        /\ RxStatusWithTerminator => outcome.exc = TS3Error(PyInt(-1))
        /\ (/\ op = "get_dut_present" /\ RxAccepted
            /\ Len(dev.fields) = 3 /\ RxField(2) = <<49, 13>>)
              => outcome = [exc |-> NoExc, ret |-> PyBool(FALSE)]

\* set_supply was answered "0;1\r" and raised the mismatch error
C23_Witness ==
    /\ pc = "returned" /\ op = "set_supply"
    /\ Received /\ dev.fields = <<<<48>>, <<49, 13>>>>
    /\ outcome.exc = TS3Error(PyInt(-1))

====
